---- MODULE Spec2Model ----
(***************************************************************************)
(* Model of conflicts_info_parse (src/src/main.rs): the loader of the four *)
(* conflict exports, the signature canonicalizer, the selector hasher and  *)
(* the pass of main over the ABI document.                                 *)
(*                                                                         *)
(* Text that the program parses (CSV fields) is a sequence of one-char     *)
(* strings; a Rust String that is only compared or concatenated is a TLA+  *)
(* string.  A u32 is a pair of 16-bit limbs [hi, lo] (value hi*2^16 + lo), *)
(* so that the full 32-bit range is kept.                                  *)
(***************************************************************************)
EXTENDS Integers, Sequences, FiniteSets, TLC

\* ------------------------------------------------------------------ bounds
\* Rows in the four exports together, entries in the ABI array, inputs of a
\* method.
MaxRows == 3
MaxEntries == 3
MaxInputs == 2

\* ------------------------------------------------------------- primitives
Limb == 256 * 256

U32(h, l) == [hi |-> h, lo |-> l]

Digits == <<"0", "1", "2", "3", "4", "5", "6", "7", "8", "9",
            "a", "b", "c", "d", "e", "f">>

UpperDigits == <<"0", "1", "2", "3", "4", "5", "6", "7", "8", "9",
                 "A", "B", "C", "D", "E", "F">>

\* char::to_digit(radix): the digit's value, or -1
ToDigit(c, radix) ==
    IF \E i \in 1..radix : Digits[i] = c \/ UpperDigits[i] = c
    THEN (CHOOSE i \in 1..radix : Digits[i] = c \/ UpperDigits[i] = c) - 1
    ELSE -1

IsAsciiDigit(c) == ToDigit(c, 10) >= 0

\* String built from a sequence of chars
RECURSIVE ToStr(_)
ToStr(cs) == IF cs = <<>> THEN "" ELSE Head(cs) \o ToStr(Tail(cs))

\* str::trim_start_matches("0x"): the prefix is removed as often as it occurs
RECURSIVE trim_start_matches_0x(_)
trim_start_matches_0x(cs) ==
    IF Len(cs) >= 2 /\ cs[1] = "0" /\ cs[2] = "x"
    THEN trim_start_matches_0x(SubSeq(cs, 3, Len(cs)))
    ELSE cs

\* The digit loop of u32::from_str_radix: checked_mul, then checked_add
RECURSIVE radix_loop(_, _, _)
radix_loop(cs, radix, acc) ==
    IF cs = <<>> THEN [ok |-> TRUE, v |-> acc]
    ELSE LET d == ToDigit(Head(cs), radix)
             l == acc.lo * radix + d
             h == acc.hi * radix + (l \div Limb)
         IN  IF d < 0 \/ h >= Limb
             THEN [ok |-> FALSE, v |-> U32(0, 0)]
             ELSE radix_loop(Tail(cs), radix, U32(h, l % Limb))

\* u32::from_str_radix: empty is an error, one leading '+' is accepted, a
\* '-' is an invalid digit for an unsigned type
from_str_radix(cs, radix) ==
    IF cs = <<>> THEN [ok |-> FALSE, v |-> U32(0, 0)]
    ELSE LET body == IF Head(cs) = "+" THEN Tail(cs) ELSE cs
         IN  IF body = <<>> THEN [ok |-> FALSE, v |-> U32(0, 0)]
             ELSE radix_loop(body, radix, U32(0, 0))

\* str::parse::<u32>()
parse_u32(cs) == from_str_radix(cs, 10)

\* str::parse::<String>(): infallible, the text itself
parse_String(cs) == [ok |-> TRUE, v |-> ToStr(cs)]

\* Display of a u32 (the digits serde_json writes for a number)
RECURSIVE U32ToDecimal(_)
U32ToDecimal(u) ==
    LET t == (u.hi % 10) * Limb + u.lo
        q == U32(u.hi \div 10, t \div 10)
        d == Digits[(t % 10) + 1]
    IN  IF q = U32(0, 0) THEN d ELSE U32ToDecimal(q) \o d

\* Regex 0x(\d+), Regex::find: the leftmost match, digits taken greedily;
\* the match is the whole of "0x<digits>"
MatchStarts(cs) ==
    {p \in 1..Len(cs) : /\ p + 2 <= Len(cs)
                        /\ cs[p] = "0"
                        /\ cs[p + 1] = "x"
                        /\ IsAsciiDigit(cs[p + 2])}

RECURSIVE DigitRunEnd(_, _)
DigitRunEnd(cs, p) ==
    IF p + 1 <= Len(cs) /\ IsAsciiDigit(cs[p + 1])
    THEN DigitRunEnd(cs, p + 1)
    ELSE p

Min(S) == CHOOSE m \in S : \A n \in S : m <= n

slot_re_find(cs) ==
    IF MatchStarts(cs) = {} THEN [found |-> FALSE, start |-> 0, end |-> 0]
    ELSE LET p == Min(MatchStarts(cs))
         IN  [found |-> TRUE, start |-> p, end |-> DigitRunEnd(cs, p + 2)]

\* Match::as_str().to_string()
match_as_str(cs, m) == ToStr(SubSeq(cs, m.start, m.end))

\* ------------------------------------------------------------- data model
\* enum ConflictType, #[repr(u8)]
ConflictType_All == 0
ConflictType_Len == 1
ConflictType_Env == 2
ConflictType_Var == 3
ConflictType_Const == 4
ConflictType_None == 5

\* enum EnvironmentType
EnvironmentType_Caller == 0
EnvironmentType_Origin == 1
EnvironmentType_Now == 2
EnvironmentType_BlockNumber == 3
EnvironmentType_Address == 4
EnvironmentType_Unknown == 5

\* Option<u32>
NoValue == [some |-> FALSE, v |-> U32(0, 0)]
Some(u) == [some |-> TRUE, v |-> u]

\* struct ConflictInfo
ConflictInfo(k, sel, s, val) ==
    [kind |-> k, selector |-> sel, slot |-> s, value |-> val]

Panic == [ok |-> FALSE, rec |-> ConflictInfo(0, U32(0, 0), "", NoValue)]
Pushed(rec) == [ok |-> TRUE, rec |-> rec]

\* The text of the tokens the Env loop matches on
CALLER == <<"C", "A", "L", "L", "E", "R">>
ORIGIN == <<"O", "R", "I", "G", "I", "N">>
TIMESTAMP == <<"T", "I", "M", "E", "S", "T", "A", "M", "P">>
NUMBER == <<"N", "U", "M", "B", "E", "R">>
ADDRESS == <<"A", "D", "D", "R", "E", "S", "S">>

\* match record[2].as_ref() { ... }
environment_type(token) ==
    CASE token = CALLER -> EnvironmentType_Caller
      [] token = ORIGIN -> EnvironmentType_Origin
      [] token = TIMESTAMP -> EnvironmentType_Now
      [] token = NUMBER -> EnvironmentType_BlockNumber
      [] token = ADDRESS -> EnvironmentType_Address
      [] OTHER -> EnvironmentType_Unknown

\* u32::from_str_radix(record[i].trim_start_matches("0x"), 16)
parse_selector(field) == from_str_radix(trim_start_matches_0x(field), 16)

\* One iteration of the loop over Conflict_EnvConflict.csv: the record
\* pushed, or a panic (an index past the record's end, or an unwrap of an
\* error)
env_record(record) ==
    IF Len(record) < 4 THEN Panic
    ELSE LET selector == parse_selector(record[2])
             value == environment_type(record[3])
             m == slot_re_find(record[4])
         IN  IF ~selector.ok \/ ~m.found THEN Panic
             ELSE Pushed(ConflictInfo(ConflictType_Env, selector.v,
                                      match_as_str(record[4], m),
                                      Some(U32(0, value))))

\* One iteration of the loop over Conflict_FunArgConflict.csv
var_record(record) ==
    IF Len(record) < 4 THEN Panic
    ELSE LET selector == parse_selector(record[2])
             value == parse_u32(record[3])
             m == slot_re_find(record[4])
         IN  IF ~selector.ok \/ ~value.ok \/ ~m.found THEN Panic
             ELSE Pushed(ConflictInfo(ConflictType_Var, selector.v,
                                      match_as_str(record[4], m),
                                      Some(value.v)))

\* One iteration of the loop over Conflict_ConsConflict.csv
const_record(record) ==
    IF Len(record) < 3 THEN Panic
    ELSE LET selector == parse_selector(record[2])
             slot == parse_String(record[3])
         IN  IF ~selector.ok \/ ~slot.ok THEN Panic
             ELSE Pushed(ConflictInfo(ConflictType_Const, selector.v,
                                      slot.v, NoValue))

\* One iteration of the loop over Conflict_NoConflict.csv
none_record(record) ==
    IF Len(record) < 1 THEN Panic
    ELSE LET selector == parse_selector(record[1])
         IN  IF ~selector.ok THEN Panic
             ELSE Pushed(ConflictInfo(ConflictType_None, selector.v,
                                      "", NoValue))

\* ------------------------------------------------------------------- JSON
\* serde_json::Value; a number is its decimal text
JNull == [j |-> "null"]
JStr(s) == [j |-> "string", s |-> s]
JNum(n) == [j |-> "number", n |-> n]
JArr(items) == [j |-> "array", items |-> items]
JObj(map) == [j |-> "object", map |-> map]

\* Value's Index<&str>: Null for a missing key or a value that is no object
ValueIndex(v, key) ==
    IF v.j = "object" /\ key \in DOMAIN v.map THEN v.map[key] ELSE JNull

\* Map::insert
MapInsert(map, key, v) ==
    [k \in DOMAIN map \cup {key} |-> IF k = key THEN v ELSE map[k]]

\* Mutant: value is always written, null when it is None
to_value_info_null(info) ==
    JObj([kind |-> JNum(U32ToDecimal(U32(0, info.kind))),
          slot |-> JStr(info.slot),
          value |-> IF info.value.some
                    THEN JNum(U32ToDecimal(info.value.v)) ELSE JNull])

\* Serialize of ConflictInfo: selector is skipped, value is skipped when it
\* is None, kind is its u8 discriminant
to_value_info(info) ==
    LET base == [kind |-> JNum(U32ToDecimal(U32(0, info.kind))),
                 slot |-> JStr(info.slot)]
    IN  JObj(IF info.value.some
             THEN MapInsert(base, "value", JNum(U32ToDecimal(info.value.v)))
             ELSE base)

\* serde_json::to_value(Vec<ConflictInfo>)
to_value(infos) == JArr([i \in 1..Len(infos) |-> to_value_info(infos[i])])

\* ------------------------------------------------- get_method_signature
NoSignature == [ok |-> FALSE, s |-> ""]

\* Mutant: a comma after every component, the last one too
RECURSIVE push_components_trailing(_, _, _)
push_components_trailing(tuple_inputs, j, signature) ==
    IF j > Len(tuple_inputs) THEN [ok |-> TRUE, s |-> signature]
    ELSE LET ty == ValueIndex(tuple_inputs[j], "type")
         IN  IF ty.j # "string" THEN NoSignature
             ELSE push_components_trailing(tuple_inputs, j + 1,
                                           signature \o ty.s \o ",")

\* The inner loop over a tuple's components, from index j (1-based)
RECURSIVE push_components(_, _, _)
push_components(tuple_inputs, j, signature) ==
    IF j > Len(tuple_inputs) THEN [ok |-> TRUE, s |-> signature]
    ELSE LET ty == ValueIndex(tuple_inputs[j], "type")
         IN  IF ty.j # "string" THEN NoSignature
             ELSE push_components(
                      tuple_inputs, j + 1,
                      signature \o ty.s
                          \o (IF j # Len(tuple_inputs) THEN "," ELSE ""))

\* The loop over inputs, from index i (1-based)
RECURSIVE push_inputs(_, _, _)
push_inputs(inputs, i, signature) ==
    IF i > Len(inputs) THEN [ok |-> TRUE, s |-> signature]
    ELSE LET ty == ValueIndex(inputs[i], "type")
             sep == IF i # 1 THEN "," ELSE ""
         IN  IF ty.j # "string" THEN NoSignature
             ELSE IF ty.s = "tuple"
             THEN LET components == ValueIndex(inputs[i], "components")
                  IN  IF components.j # "array" THEN NoSignature
                      ELSE LET inner == push_components(
                                            components.items, 1,
                                            signature \o sep \o "(")
                           IN  IF ~inner.ok THEN NoSignature
                               ELSE push_inputs(inputs, i + 1,
                                                inner.s \o ")")
             ELSE push_inputs(inputs, i + 1, signature \o sep \o ty.s)

\* get_method_signature(method): the signature, or a panic (name not a
\* string, no inputs key, inputs not an array, a type that is no string, a
\* tuple without a components array)
get_method_signature(method) ==
    IF \/ "name" \notin DOMAIN method
       \/ method["name"].j # "string"
       \/ "inputs" \notin DOMAIN method
       \/ method["inputs"].j # "array"
    THEN NoSignature
    ELSE LET body == push_inputs(method["inputs"].items, 1,
                                 method["name"].s \o "(")
         IN  IF ~body.ok THEN NoSignature
             ELSE [ok |-> TRUE, s |-> body.s \o ")"]

\* -------------------------------------------------------- get_method_id
\* Mutant: the bytes taken little-endian
from_le_bytes(b) == U32(b[4] * 256 + b[3], b[2] * 256 + b[1])

\* u32::from_be_bytes of a 4-byte array
from_be_bytes(b) == U32(b[1] * 256 + b[2], b[3] * 256 + b[4])

\* The digest algorithm the flag selects
Algorithm(flag) == IF flag THEN "sm3" ELSE "keccak256"

\* get_method_id, given the digest of the signature under Algorithm(gm)
get_method_id(hash) == from_be_bytes(SubSeq(hash, 1, 4))


\* ----------------------------------------------------------------- inputs
\* Rows of the exports (tab-separated fields), each field as its chars
\* selector A, a known token, the slot in prose
Env_Caller ==
    << <<"1">>,
      <<"0", "x", "a", "a", "b", "b", "c", "c", "d", "d">>,
      <<"C", "A", "L", "L", "E", "R">>,
      <<"s", "l", "o", "t", " ", "i", "s", " ", "0", "x", "7">> >>

\* a token outside the known set; the digits stop at f
Env_Unknown ==
    << <<"2">>,
      <<"0", "x", "1", "0", "2", "0", "3", "0", "4">>,
      <<"G", "A", "S", "P", "R", "I", "C", "E">>,
      <<"0", "x", "1", "f">> >>

\* selector without prefix, two candidates for the slot
Env_Timestamp ==
    << <<"3">>,
      <<"a", "a", "b", "b", "c", "c", "d", "d">>,
      <<"T", "I", "M", "E", "S", "T", "A", "M", "P">>,
      <<"0", "x", "1", "2", " ", "0", "x", "3", "4">> >>

\* selector is no hex numeral
Env_BadSelector ==
    << <<"4">>,
      <<"0", "x", "z", "z">>,
      <<"O", "R", "I", "G", "I", "N">>,
      <<"0", "x", "7">> >>

\* column 3 has no 0x<digits>
Env_NoSlot ==
    << <<"5">>,
      <<"0", "x", "a", "a", "b", "b", "c", "c", "d", "d">>,
      <<"N", "U", "M", "B", "E", "R">>,
      <<"s", "l", "o", "t", " ", "7">> >>

Var_Word0 ==
    << <<"1">>,
      <<"0", "x", "a", "a", "b", "b", "c", "c", "d", "d">>,
      <<"0">>,
      <<"k", "e", "y", " ", "0", "x", "3">> >>

Var_Word12 ==
    << <<"2">>,
      <<"0", "x", "1", "0", "2", "0", "3", "0", "4">>,
      <<"1", "2">>,
      <<"0", "x", "1", "0">> >>

\* column 2 is no decimal integer
Var_BadValue ==
    << <<"3">>,
      <<"0", "x", "a", "a", "b", "b", "c", "c", "d", "d">>,
      <<"x", "1">>,
      <<"0", "x", "3">> >>

Var_NoSlot ==
    << <<"4">>,
      <<"0", "x", "1", "0", "2", "0", "3", "0", "4">>,
      <<"1">>,
      <<"n", "o", "n", "e">> >>

Const_Five ==
    << <<"1">>,
      <<"0", "x", "1", "0", "2", "0", "3", "0", "4">>,
      <<"5">> >>

\* column 2 is no decimal integer
Const_Text ==
    << <<"2">>,
      <<"0", "x", "a", "a", "b", "b", "c", "c", "d", "d">>,
      <<"a", "b", "c">> >>

\* the selector column is empty
Const_BadSelector ==
    << <<"3">>,
      <<>>,
      <<"5">> >>

None_A ==
    << <<"0", "x", "a", "a", "b", "b", "c", "c", "d", "d">> >>

\* the prefix twice
None_B ==
    << <<"0", "x", "0", "x", "1", "0", "2", "0", "3", "0", "4">> >>

\* nine hex digits: over u32::MAX
None_BadSelector ==
    << <<"0", "x", "1", "0", "0", "0", "0", "0", "0", "0", "0">> >>

\* A file of the file system: absent/unreadable, or its content
Missing == [fs |-> "missing"]
File(c) == [fs |-> "file", content |-> c]

\* The four exports of a directory
Exports(env, var, cons, none) ==
    [env |-> env, var |-> var, cons |-> cons, none |-> none]

\* ABI text that is no JSON
InvalidJson == [j |-> "invalid"]

\* Parameter descriptors and entries of an ABI document
Param(ty) == JObj([type |-> JStr(ty)])
TupleParam(ty, components) ==
    JObj([type |-> JStr(ty), components |-> JArr(components)])
Function(name, inputs) ==
    JObj([name |-> JStr(name), type |-> JStr("function"),
          inputs |-> JArr(inputs)])

Fn_f == Function("f", <<>>)
Fn_g == Function("g", <<Param("uint256")>>)
\* f() as an earlier run left it: annotated with one None record
Fn_f_annotated ==
    JObj(MapInsert(Fn_f.map, "conflictFields",
                   JArr(<<JObj([kind |-> JNum("5"), slot |-> JStr("")])>>)))
Event_f ==
    JObj([name |-> JStr("f"), type |-> JStr("event"), inputs |-> JArr(<<>>)])
Constructor == JObj([type |-> JStr("constructor"), inputs |-> JArr(<<>>)])
NoType == JObj([name |-> JStr("f"), inputs |-> JArr(<<>>)])
\* an entry that is no object
NotObject == JStr("f")
\* a function entry without inputs: its signature cannot be derived
Fn_h_no_inputs == JObj([name |-> JStr("h"), type |-> JStr("function")])

\* The digests the hash functions may return: 32 bytes, the first four
\* 0xaabbccdd or 0x01020304
Digest(b1, b2, b3, b4) ==
    [i \in 1..32 |-> CASE i = 1 -> b1 [] i = 2 -> b2 [] i = 3 -> b3
                       [] i = 4 -> b4 [] OTHER -> (i * 37) % 256]

DigestUniverse == {Digest(170, 187, 204, 221), Digest(1, 2, 3, 4)}

\* Sequences over S of length n, and of length at most n
Seqs(S, n) == [1..n -> S]
SeqsUpTo(S, n) == UNION {Seqs(S, k) : k \in 0..n}

EnvRows == {Env_Caller, Env_Unknown, Env_Timestamp, Env_BadSelector,
            Env_NoSlot}
VarRows == {Var_Word0, Var_Word12, Var_BadValue, Var_NoSlot}
ConstRows == {Const_Five, Const_Text, Const_BadSelector}
NoneRows == {None_A, None_B, None_BadSelector}

\* Directories whose four exports hold at most MaxRows rows together
Splits == {s \in [1..4 -> 0..MaxRows] : s[1] + s[2] + s[3] + s[4] <= MaxRows}

LoaderDirs ==
    UNION {{Exports(File(e), File(v), File(c), File(n)) :
                e \in Seqs(EnvRows, s[1]), v \in Seqs(VarRows, s[2]),
                c \in Seqs(ConstRows, s[3]), n \in Seqs(NoneRows, s[4])} :
           s \in Splits}

\* Directories with one export absent or short of fields
BrokenDirs ==
    {Exports(Missing, File(<<>>), File(<<>>), File(<<>>)),
     Exports(File(<<Env_Caller>>), Missing, File(<<>>), File(<<>>)),
     Exports(File(<<>>), File(<<Var_Word0>>), Missing, File(<<>>)),
     Exports(File(<<>>), File(<<>>), File(<<Const_Five>>), Missing),
     Exports(File(<<Env_Caller, SubSeq(Env_Caller, 1, 3)>>), File(<<>>),
             File(<<>>), File(<<>>)),
     Exports(File(<<>>), File(<<SubSeq(Var_Word0, 1, 2)>>), File(<<>>),
             File(<<>>)),
     Exports(File(<<>>), File(<<>>), File(<<SubSeq(Const_Five, 1, 2)>>),
             File(<<>>))}

\* Directories of well-formed exports, for the pass over the ABI
OneOfEach ==
    Exports(File(<<Env_Caller>>), File(<<Var_Word12>>),
            File(<<Const_Five>>), File(<<None_A>>))

JoinDirs ==
    {Exports(File(<<>>), File(<<>>), File(<<>>), File(<<>>)),
     OneOfEach,
     Exports(File(<<Env_Timestamp>>), File(<<Var_Word0>>), File(<<>>),
             File(<<>>)),
     Exports(File(<<Env_Caller, Env_Unknown>>), File(<<Var_Word12>>),
             File(<<Const_Five>>), File(<<None_B>>)),
     Exports(File(<<Env_Caller, Env_Caller>>), File(<<Var_Word12>>),
             File(<<Const_Text>>), File(<<None_B, None_A>>))}

\* ABI documents of at most MaxEntries entries
JoinEntries == {Fn_f, Fn_g, Fn_f_annotated, Event_f, Constructor, NoType,
                NotObject, Fn_h_no_inputs}

JoinAbis == {File(JArr(es)) : es \in SeqsUpTo(JoinEntries, MaxEntries)}

\* ABI files of the loader's runs: a good one, and the ones main panics on
GoodAbi == File(JArr(<<Fn_f, Event_f, Fn_g>>))

BadAbis == {Missing, File(InvalidJson), File(Fn_f),
            File(JArr(<<Fn_f, Fn_h_no_inputs>>)),
            File(JArr(<<Fn_f, NotObject>>))}

\* Parameters of a method, and the one-method documents over them
P_uint256 == Param("uint256")
P_addresses == Param("address[]")
P_pair == TupleParam("tuple", <<Param("address"), Param("bool")>>)
P_unit == TupleParam("tuple", <<>>)
P_nested ==
    TupleParam("tuple",
               <<TupleParam("tuple", <<Param("uint8")>>), Param("bytes")>>)
P_tuples == TupleParam("tuple[]", <<Param("uint8")>>)
\* a descriptor without a type, and a tuple without components
P_untyped == JObj([name |-> JStr("a")])
P_bare_tuple == Param("tuple")

ParamUniverse == {P_uint256, P_addresses, P_pair, P_unit, P_nested, P_tuples,
                  P_untyped, P_bare_tuple}

SignatureAbis ==
    {File(JArr(<<Function("f", inputs)>>)) :
         inputs \in SeqsUpTo(ParamUniverse, MaxInputs)}

\* ------------------------------------------------------------------ state
VARIABLES
    gm,           \* args.gm
    abi_file,     \* the file at args.abi
    exports,      \* the four files of the directory args.path
    digests,      \* the digests computed so far: <<algorithm, text>> -> bytes
    pc,           \* where main is
    abi_content,  \* main: the text read from args.abi
    file_ix,      \* parse_conflict_info: the export being read, 1..4
    row_ix,       \* parse_conflict_info: the next record of that export
    result,       \* parse_conflict_info: the records pushed so far
    conflicts,    \* main: the loaded records
    origin_abi,   \* main: the parsed document, annotated in place
    entry_ix,     \* main: the next entry of the for_each
    locals        \* per entry visited: the closure's signature, method_id
                  \* and method_conflicts

vars == <<gm, abi_file, exports, digests, pc, abi_content, file_ix, row_ix,
          result, conflicts, origin_abi, entry_ix, locals>>

\* The export parse_conflict_info reads k-th
ExportFile(k) ==
    CASE k = 1 -> exports.env
      [] k = 2 -> exports.var
      [] k = 3 -> exports.cons
      [] OTHER -> exports.none

\* csv::Reader::records without flexible(true): a record whose number of
\* fields differs from the first record's is an error
ReadRecord(rows, k) ==
    IF Len(rows[k]) # Len(rows[1]) THEN [ok |-> FALSE, record |-> <<>>]
    ELSE [ok |-> TRUE, record |-> rows[k]]

InitWith(flags, abis, dirs) ==
    /\ gm \in flags
    /\ abi_file \in abis
    /\ exports \in dirs
    /\ digests = << >>
    /\ pc = "read_abi"
    /\ abi_content = InvalidJson
    /\ file_ix = 1
    /\ row_ix = 1
    /\ result = <<>>
    /\ conflicts = <<>>
    /\ origin_abi = JNull
    /\ entry_ix = 1
    /\ locals = <<>>

\* ---------------------------------------------------------------- actions
\* main: std::fs::read_to_string(&args.abi).expect(..)
ReadAbi ==
    /\ pc = "read_abi"
    /\ IF abi_file.fs = "missing"
       THEN pc' = "panicked" /\ UNCHANGED abi_content
       ELSE pc' = "open_csv" /\ abi_content' = abi_file.content
    /\ UNCHANGED <<gm, abi_file, exports, digests, file_ix, row_ix, result,
                   conflicts, origin_abi, entry_ix, locals>>

\* parse_conflict_info: ReaderBuilder .. from_path(..).unwrap()
OpenCsv ==
    /\ pc = "open_csv"
    /\ IF ExportFile(file_ix).fs = "missing"
       THEN pc' = "panicked" /\ UNCHANGED row_ix
       ELSE pc' = "records" /\ row_ix' = 1
    /\ UNCHANGED <<gm, abi_file, exports, digests, abi_content, file_ix,
                   result, conflicts, origin_abi, entry_ix, locals>>

\* Mutant: a record equal to one already pushed is dropped
push_dedup(vec, rec) ==
    IF \E k \in 1..Len(vec) : vec[k] = rec THEN vec ELSE Append(vec, rec)

\* result.push(..)
push(vec, rec) == Append(vec, rec)

\* for r in rdr.records() { let record = r.unwrap(); .. }: the record the
\* reader yields next, unwrapped
NextRecord == ReadRecord(ExportFile(file_ix).content, row_ix)

\* The end of one iteration: the record is pushed, or main has panicked
Iteration(pushed) ==
    /\ IF pushed.ok
       THEN /\ result' = push(result, pushed.rec)
            /\ row_ix' = row_ix + 1
            /\ pc' = pc
       ELSE /\ pc' = "panicked"
            /\ UNCHANGED <<result, row_ix>>
    /\ UNCHANGED <<gm, abi_file, exports, digests, abi_content, file_ix,
                   conflicts, origin_abi, entry_ix, locals>>

\* One iteration of the loop over Conflict_EnvConflict.csv
EnvRecord ==
    /\ pc = "records"
    /\ file_ix = 1
    /\ row_ix <= Len(exports.env.content)
    /\ Iteration(IF NextRecord.ok THEN env_record(NextRecord.record)
                 ELSE Panic)

\* One iteration of the loop over Conflict_FunArgConflict.csv
VarRecord ==
    /\ pc = "records"
    /\ file_ix = 2
    /\ row_ix <= Len(exports.var.content)
    /\ Iteration(IF NextRecord.ok THEN var_record(NextRecord.record)
                 ELSE Panic)

\* One iteration of the loop over Conflict_ConsConflict.csv
ConstRecord ==
    /\ pc = "records"
    /\ file_ix = 3
    /\ row_ix <= Len(exports.cons.content)
    /\ Iteration(IF NextRecord.ok THEN const_record(NextRecord.record)
                 ELSE Panic)

\* One iteration of the loop over Conflict_NoConflict.csv
NoneRecord ==
    /\ pc = "records"
    /\ file_ix = 4
    /\ row_ix <= Len(exports.none.content)
    /\ Iteration(IF NextRecord.ok THEN none_record(NextRecord.record)
                 ELSE Panic)

\* The end of a loop: on to the next export, or, after the last, parse_conflict_info
\* returns result to main
EndOfRecords ==
    /\ pc = "records"
    /\ row_ix > Len(ExportFile(file_ix).content)
    /\ IF file_ix < 4
       THEN /\ file_ix' = file_ix + 1
            /\ pc' = "open_csv"
            /\ UNCHANGED conflicts
       ELSE /\ pc' = "parse_abi"
            /\ conflicts' = result
            /\ UNCHANGED file_ix
    /\ UNCHANGED <<gm, abi_file, exports, digests, abi_content, row_ix,
                   result, origin_abi, entry_ix, locals>>

\* main: serde_json::from_str(&abi_content).unwrap(), .as_array_mut().unwrap()
ParseAbi ==
    /\ pc = "parse_abi"
    /\ IF abi_content.j # "array"
       THEN pc' = "panicked" /\ UNCHANGED <<origin_abi, entry_ix>>
       ELSE pc' = "for_each" /\ origin_abi' = abi_content /\ entry_ix' = 1
    /\ UNCHANGED <<gm, abi_file, exports, digests, abi_content, file_ix,
                   row_ix, result, conflicts, locals>>

\* The condition of the closure's if
is_function(method) ==
    /\ "name" \in DOMAIN method
    /\ "type" \in DOMAIN method
    /\ method["type"] = JStr("function")

\* Mutant: only the first record of the selector is taken
RECURSIVE filter_first(_, _)
filter_first(cs, method_id) ==
    IF cs = <<>> THEN <<>>
    ELSE IF Head(cs).selector = method_id THEN <<Head(cs)>>
    ELSE filter_first(Tail(cs), method_id)

\* Mutant: the records of the selector, last one first
RECURSIVE filter_reversed(_, _)
filter_reversed(cs, method_id) ==
    IF cs = <<>> THEN <<>>
    ELSE filter_reversed(Tail(cs), method_id)
             \o (IF Head(cs).selector = method_id THEN <<Head(cs)>> ELSE <<>>)

\* conflicts.iter().filter(|c| c.selector == method_id).cloned().collect()
RECURSIVE filter_cloned(_, _)
filter_cloned(cs, method_id) ==
    IF cs = <<>> THEN <<>>
    ELSE (IF Head(cs).selector = method_id THEN <<Head(cs)>> ELSE <<>>)
             \o filter_cloned(Tail(cs), method_id)

\* Mutant: the key is inserted whether or not a record matched
insert_always(method, method_conflicts) ==
    MapInsert(method, "conflictFields", to_value(method_conflicts))

\* if method_conflicts.len() != 0 { method.insert("conflictFields", ..) }
insert_conflicts(method, method_conflicts) ==
    IF Len(method_conflicts) # 0
    THEN MapInsert(method, "conflictFields", to_value(method_conflicts))
    ELSE method

\* What the closure leaves behind for an entry it skips
Skipped ==
    [function |-> FALSE, signature |-> "", method_id |-> U32(0, 0),
     method_conflicts |-> <<>>]

\* The digest of text under an algorithm: the one computed before, or, for
\* a text hashed for the first time, any of the digests
DigestsOf(alg, text) ==
    IF <<alg, text>> \in DOMAIN digests
    THEN {digests[<<alg, text>>]}
    ELSE DigestUniverse

\* The closure of the for_each, on the entry at entry_ix
Closure ==
    /\ pc = "for_each"
    /\ entry_ix <= Len(origin_abi.items)
    /\ LET entry == origin_abi.items[entry_ix]
       IN  IF entry.j # "object"
           THEN /\ pc' = "panicked"
                /\ UNCHANGED <<digests, origin_abi, entry_ix, locals>>
           ELSE IF ~is_function(entry.map)
           THEN /\ pc' = pc
                /\ entry_ix' = entry_ix + 1
                /\ locals' = Append(locals, Skipped)
                /\ UNCHANGED <<digests, origin_abi>>
           ELSE LET signature == get_method_signature(entry.map)
                IN  IF ~signature.ok
                    THEN /\ pc' = "panicked"
                         /\ UNCHANGED <<digests, origin_abi, entry_ix, locals>>
                    ELSE \E hash \in DigestsOf(Algorithm(gm), signature.s) :
                           LET method_id == get_method_id(hash)
                               method_conflicts ==
                                   filter_cloned(conflicts, method_id)
                               method == insert_conflicts(entry.map,
                                                          method_conflicts)
                           IN  /\ digests' =
                                     [k \in DOMAIN digests
                                            \cup {<<Algorithm(gm), signature.s>>}
                                        |-> IF k = <<Algorithm(gm), signature.s>>
                                            THEN hash ELSE digests[k]]
                               /\ origin_abi' =
                                     [origin_abi EXCEPT
                                        !.items[entry_ix] = JObj(method)]
                               /\ locals' = Append(locals,
                                     [function |-> TRUE,
                                      signature |-> signature.s,
                                      method_id |-> method_id,
                                      method_conflicts |-> method_conflicts])
                               /\ entry_ix' = entry_ix + 1
                               /\ pc' = pc
    /\ UNCHANGED <<gm, exports, abi_content, file_ix, row_ix, result,
                   conflicts>>

\* Mutant: the document is written back after every entry
ForEachMethodWriteThrough == Closure /\ abi_file' = File(origin_abi')

\* main: origin_abi.as_array_mut().unwrap().iter_mut().for_each(..), one
\* entry at a time; the file is not touched
ForEachMethod == Closure /\ UNCHANGED abi_file

\* main: serde_json::to_string(&origin_abi), std::fs::write(&args.abi, ..)
WriteAbi ==
    /\ pc = "for_each"
    /\ entry_ix > Len(origin_abi.items)
    /\ abi_file' = File(origin_abi)
    /\ pc' = "done"
    /\ UNCHANGED <<gm, exports, digests, abi_content, file_ix, row_ix,
                   result, conflicts, origin_abi, entry_ix, locals>>

Next ==
    \/ ReadAbi
    \/ OpenCsv
    \/ EnvRecord
    \/ VarRecord
    \/ ConstRecord
    \/ NoneRecord
    \/ EndOfRecords
    \/ ParseAbi
    \/ ForEachMethod
    \/ WriteAbi

\* The pass over the ABI: every document, a few directories
Init == InitWith(BOOLEAN, JoinAbis, JoinDirs)
Spec == Init /\ [][Next]_vars

\* The loader: every directory with a good document, and every failing
\* input
InitLoader ==
    \/ InitWith({FALSE}, {GoodAbi}, LoaderDirs \cup BrokenDirs)
    \/ InitWith({FALSE}, BadAbis, JoinDirs)
SpecLoader == InitLoader /\ [][Next]_vars

\* The canonicalizer and the hasher: every one-method document
InitSignature == InitWith(BOOLEAN, SignatureAbis, {OneOfEach})
SpecSignature == InitSignature /\ [][Next]_vars
\* ------------------------------------------------------------ properties
\* The entries the closure has visited
Visited == 1..Len(locals)

\* The entry at i as it was read, and as it is now
Before(i) == abi_content.items[i]
After(i) == origin_abi.items[i]

\* The selector of a function entry: of its signature, under the run's flag
SelectorOf(entry) ==
    get_method_id(digests[<<Algorithm(gm), get_method_signature(entry.map).s>>])

\* The records loaded with the selector id
Matching(id) == {r \in 1..Len(conflicts) : conflicts[r].selector = id}

\* R appears among the records attached to the entry at i
Appears(R, i) ==
    \E k \in 1..Len(locals[i].method_conflicts) :
        locals[i].method_conflicts[k] = R

\* C1: after a successful run every entry was visited, and for every
\* function entry M and loaded record R, R is among the records attached to
\* M as conflictFields iff R.selector is the selector of M's signature under
\* the run's flag; entries that share a selector each get every such record,
\* and a panic in the pass never comes from the matching (only from an entry
\* that is no object or has no derivable signature).
C1_JoinCorrectness ==
    /\ pc = "done" => /\ Len(locals) = Len(abi_content.items)
                      /\ abi_file = File(origin_abi)
    /\ \A i \in Visited :
          is_function(Before(i).map) =>
              /\ locals[i].function
              /\ locals[i].method_id = SelectorOf(Before(i))
              /\ \A r \in 1..Len(conflicts) :
                    Appears(conflicts[r], i)
                        <=> conflicts[r].selector = SelectorOf(Before(i))
              /\ Matching(SelectorOf(Before(i))) # {} =>
                    After(i).map["conflictFields"]
                        = to_value(locals[i].method_conflicts)
    /\ (pc = "panicked" /\ origin_abi # JNull) =>
          LET entry == origin_abi.items[entry_ix]
          IN  \/ entry.j # "object"
              \/ is_function(entry.map) /\ ~get_method_signature(entry.map).ok

\* C1 witness: a finished run in which two function entries with different
\* signatures share a selector and both carry its records
C1_Witness ==
    /\ pc = "done"
    /\ \E i, j \in Visited :
          /\ locals[i].function /\ locals[j].function
          /\ locals[i].signature # locals[j].signature
          /\ locals[i].method_id = locals[j].method_id
          /\ Len(locals[i].method_conflicts) >= 2
          /\ "conflictFields" \in DOMAIN After(i).map
          /\ "conflictFields" \in DOMAIN After(j).map
          /\ After(i).map["conflictFields"] = After(j).map["conflictFields"]

\* The text captured by group 1 of 0x(\d+): the digits after "0x"
Capture1(cs) ==
    LET m == slot_re_find(cs)
    IN  ToStr(SubSeq(cs, m.start + 2, m.end))

\* The row the k-th pushed record came from, and its export (1..4)
RowsBefore(f) ==
    IF f = 1 THEN 0
    ELSE IF f = 2 THEN Len(exports.env.content)
    ELSE IF f = 3 THEN Len(exports.env.content) + Len(exports.var.content)
    ELSE Len(exports.env.content) + Len(exports.var.content)
             + Len(exports.cons.content)

ExportOf(k) ==
    CHOOSE f \in 1..4 :
        /\ RowsBefore(f) < k
        /\ f = 4 \/ k <= RowsBefore(f + 1)

RowOf(k) == ExportFile(ExportOf(k)).content[k - RowsBefore(ExportOf(k))]

\* C2 (as claimed): the slot of every record loaded from an Env or Var row
\* is the digits captured by 0x(\d+) in column 3, without the "0x"; the row
\* (_, 0xaabbccdd, CALLER, "slot is 0x7") is written {kind 2, slot "7",
\* value 0}.
C2_SlotIsCapturedDigits ==
    \A k \in 1..Len(result) :
        /\ result[k].kind \in {ConflictType_Env, ConflictType_Var} =>
              result[k].slot = Capture1(RowOf(k)[4])
        /\ RowOf(k) = Env_Caller =>
              to_value_info(result[k])
                  = JObj([kind |-> JNum("2"), slot |-> JStr("7"),
                          value |-> JNum("0")])

\* Join of texts with a separator
RECURSIVE Join(_, _)
Join(texts, sep) ==
    IF texts = <<>> THEN ""
    ELSE IF Len(texts) = 1 THEN texts[1]
    ELSE texts[1] \o sep \o Join(Tail(texts), sep)

\* The declared types of a sequence of descriptors
Types(descriptors) ==
    [n \in 1..Len(descriptors) |-> descriptors[n].map["type"].s]

\* The text of one input in the signature, as the claim words it
TypeText(input) ==
    IF input.map["type"].s = "tuple"
    THEN "(" \o Join(Types(input.map["components"].items), ",") \o ")"
    ELSE input.map["type"].s

Canonical(entry) ==
    entry.map["name"].s \o "("
        \o Join([n \in 1..Len(entry.map["inputs"].items) |->
                     TypeText(entry.map["inputs"].items[n])], ",")
        \o ")"

\* C3: the signature computed for a method is name(t1,...,tn), the inputs
\* joined by bare commas, a tuple replaced by the parenthesized join of its
\* immediate components' types (a nested tuple stays the word tuple, an
\* empty tuple gives "()"); no inputs give name(), and f with inputs
\* [uint256, tuple(address,bool)] gives f(uint256,(address,bool)).
C3_CanonicalSignature ==
    \A i \in Visited :
        locals[i].function =>
            /\ locals[i].signature = Canonical(Before(i))
            /\ Before(i) = Function("f", <<>>) => locals[i].signature = "f()"
            /\ Before(i) = Function("f", <<P_uint256, P_pair>>) =>
                  locals[i].signature = "f(uint256,(address,bool))"
            /\ Before(i) = Function("f", <<P_nested, P_unit>>) =>
                  locals[i].signature = "f((tuple,bytes),())"

\* C3 witness: the signature of f(uint256, tuple(address,bool)) was computed
C3_Witness ==
    \E i \in Visited :
        /\ Before(i) = Function("f", <<P_uint256, P_pair>>)
        /\ locals[i].signature = "f(uint256,(address,bool))"

\* C4: an entry differs from what was read only if it is a function entry
\* (name, type = "function") with at least one matching record, and then
\* only in its conflictFields key, which holds a non-empty array; the
\* rewritten file holds exactly these entries.
C4_Frame ==
    /\ origin_abi # JNull =>
          \A i \in 1..Len(origin_abi.items) :
              After(i) # Before(i) =>
                  /\ i \in Visited
                  /\ is_function(Before(i).map)
                  /\ Matching(locals[i].method_id) # {}
                  /\ After(i).map["conflictFields"].items # <<>>
                  /\ After(i).map
                        = MapInsert(Before(i).map, "conflictFields",
                                    After(i).map["conflictFields"])
    /\ pc = "done" => abi_file.content = origin_abi

\* C4 witness: a rewritten document with an event left as read, a function
\* without matches left as read, and a function that gained the key
C4_Witness ==
    /\ pc = "done"
    /\ \E i, j \in Visited :
          /\ ~is_function(Before(i).map)
          /\ abi_file.content.items[i] = Before(i)
          /\ is_function(Before(j).map)
          /\ "conflictFields" \notin DOMAIN Before(j).map
          /\ "conflictFields" \in DOMAIN abi_file.content.items[j].map
    /\ \E i \in Visited :
          /\ locals[i].function
          /\ locals[i].method_conflicts = <<>>
          /\ After(i) = Before(i)

\* C5: only the last step of a run, taken after every export was loaded and
\* every entry visited, changes the ABI file; a run that panics leaves it as
\* it was.
C5_WriteOnlyAtEnd ==
    [][abi_file' # abi_file =>
           /\ pc = "for_each" /\ pc' = "done"
           /\ file_ix = 4 /\ conflicts = result
           /\ Len(locals) = Len(origin_abi.items)
           /\ abi_file' = File(origin_abi)]_vars

\* C5 witness: a run that panicked in the pass after annotating an entry in
\* memory
C5_Witness ==
    /\ pc = "panicked"
    /\ origin_abi # JNull
    /\ origin_abi # abi_content
    /\ abi_file = File(abi_content)

\* A decimal integer: one or more digits
IsDecimal(cs) == cs # <<>> /\ \A n \in 1..Len(cs) : IsAsciiDigit(cs[n])

\* A hex value of at most 32 bits, with or without one 0x before it
IsHexValue(cs) ==
    LET body == IF Len(cs) >= 2 /\ cs[1] = "0" /\ cs[2] = "x"
                THEN SubSeq(cs, 3, Len(cs)) ELSE cs
    IN  /\ body # <<>>
        /\ \A n \in 1..Len(body) : ToDigit(body[n], 16) >= 0
        /\ from_str_radix(body, 16).ok

\* C6 (as claimed): a record is pushed only for a row whose selector is
\* valid hex, whose slot can be extracted (0x<digits> in column 3 for Env
\* and Var, a decimal integer in column 2 for Const) and, for Var, whose
\* value is a decimal integer; any other row aborts the run.  The one
\* anomaly that is loaded is an unknown Env token, as Unknown (5).
C6_FailurePolicy ==
    \A k \in 1..Len(result) :
        LET row == RowOf(k)
            f == ExportOf(k)
        IN  /\ IsHexValue(row[IF f = 4 THEN 1 ELSE 2])
            /\ f \in {1, 2} => slot_re_find(row[4]).found
            /\ f = 2 => IsDecimal(row[3])
            /\ f = 3 => IsDecimal(row[3])
            /\ f = 1 /\ row[3] \notin {CALLER, ORIGIN, TIMESTAMP, NUMBER,
                                       ADDRESS} =>
                  result[k].value = Some(U32(0, EnvironmentType_Unknown))

\* The elements of the conflictFields arrays of the document
ConflictFieldsElements ==
    IF origin_abi = JNull THEN {}
    ELSE UNION {
        IF After(i).j = "object" /\ "conflictFields" \in DOMAIN After(i).map
        THEN {After(i).map["conflictFields"].items[n] :
                 n \in 1..Len(After(i).map["conflictFields"].items)}
        ELSE {} : i \in 1..Len(origin_abi.items)}

\* C7: an element of a conflictFields array has the keys kind and slot, and
\* value exactly when its kind is Env (2) or Var (3); never selector; its
\* kind is one of 2, 3, 4, 5; an element written for a record is that
\* record's kind, with value iff the record is Env or Var; an Env row with
\* an unknown token is loaded with value Unknown and written with value 5.
C7_FieldOmission ==
    /\ \A e \in ConflictFieldsElements :
          /\ e.map["kind"] \in {JNum("2"), JNum("3"), JNum("4"), JNum("5")}
          /\ "selector" \notin DOMAIN e.map
          /\ e.map["kind"] \in {JNum("2"), JNum("3")}
                => DOMAIN e.map = {"kind", "slot", "value"}
          /\ e.map["kind"] \in {JNum("4"), JNum("5")}
                => DOMAIN e.map = {"kind", "slot"}
    /\ \A i \in Visited :
          locals[i].method_conflicts # <<>> =>
              \A n \in 1..Len(locals[i].method_conflicts) :
                  LET rec == locals[i].method_conflicts[n]
                      e == After(i).map["conflictFields"].items[n]
                  IN  /\ e.map["kind"] = JNum(Digits[rec.kind + 1])
                      /\ ("value" \in DOMAIN e.map)
                            <=> rec.kind \in {ConflictType_Env,
                                              ConflictType_Var}
                      /\ (rec.kind = ConflictType_Env
                            /\ rec.value = Some(U32(0, EnvironmentType_Unknown)))
                            => e.map["value"] = JNum("5")
    /\ \A k \in 1..Len(result) :
          (ExportOf(k) = 1
             /\ RowOf(k)[3] \notin {CALLER, ORIGIN, TIMESTAMP, NUMBER, ADDRESS})
              => /\ result[k].kind = ConflictType_Env
                 /\ result[k].value = Some(U32(0, EnvironmentType_Unknown))

\* C7 witness: a rewritten document with an Env element of value Unknown
\* (5), a Var element, and Const and None elements
C7_Witness ==
    /\ pc = "done"
    /\ [kind |-> JNum("2"), slot |-> JStr("0x1"), value |-> JNum("5")]
           \in {e.map : e \in ConflictFieldsElements}
    /\ \E e \in ConflictFieldsElements : e.map["kind"] = JNum("3")
    /\ \E e \in ConflictFieldsElements : e.map["kind"] = JNum("4")
    /\ \E e \in ConflictFieldsElements :
          e.map = [kind |-> JNum("5"), slot |-> JStr("")]

\* The loader has returned
Loaded == pc \in {"parse_abi", "for_each", "done"}

\* The kind of the records of the export f
KindOf(f) ==
    CASE f = 1 -> ConflictType_Env
      [] f = 2 -> ConflictType_Var
      [] f = 3 -> ConflictType_Const
      [] OTHER -> ConflictType_None

\* C8: the loader pushes one record per row read, in file-then-row order:
\* while it runs, the records are those of the rows read so far; when it has
\* returned, there are as many records as rows in the four exports, the
\* k-th of the kind of the k-th row's export and of that row's selector.
C8_OneRecordPerRow ==
    /\ pc = "records" => Len(result) = RowsBefore(file_ix) + row_ix - 1
    /\ Loaded =>
          /\ conflicts = result
          /\ Len(conflicts)
                = RowsBefore(4) + Len(exports.none.content)
    /\ \A k \in 1..Len(result) :
          /\ result[k].kind = KindOf(ExportOf(k))
          /\ result[k].selector
                = parse_selector(
                      RowOf(k)[IF ExportOf(k) = 4 THEN 1 ELSE 2]).v

\* C8 witness: the loader returned records of two equal rows and of rows of
\* a later export
C8_Witness ==
    /\ Loaded
    /\ Len(conflicts) = 3
    /\ conflicts[1] = conflicts[2]
    /\ conflicts[1].kind = ConflictType_Env
    /\ conflicts[3].kind = ConflictType_None

\* C9: the records attached to a function entry are the loaded list
\* filtered by the entry's selector, order and multiplicity kept, and so is
\* the array written under conflictFields; the loaded list stays what the
\* loader returned while the entries are visited.
C9_StableFilter ==
    /\ Loaded => conflicts = result
    /\ \A i \in Visited :
          locals[i].function =>
              LET Selected(c) == c.selector = locals[i].method_id
                  expected == SelectSeq(conflicts, Selected)
              IN  /\ locals[i].method_conflicts = expected
                  /\ expected # <<>> =>
                        After(i).map["conflictFields"].items
                            = [n \in 1..Len(expected) |->
                                   to_value_info(expected[n])]

\* C9 witness: an entry with three or more records of its selector, the
\* first two equal, among records of another selector
C9_Witness ==
    \E i \in Visited :
        /\ Len(locals[i].method_conflicts) >= 3
        /\ locals[i].method_conflicts[1] = locals[i].method_conflicts[2]
        /\ locals[i].method_conflicts[3] # locals[i].method_conflicts[1]
        /\ Len(conflicts) > Len(locals[i].method_conflicts)
        /\ After(i).map["conflictFields"].items[1]
              = After(i).map["conflictFields"].items[2]

\* C10: the selector computed for a signature is the first four bytes of
\* its digest under the algorithm of the flag (keccak256 when false, sm3
\* when true), big-endian: b0*2^24 + b1*2^16 + b2*2^8 + b3, here as the two
\* 16-bit halves; it is within 32 bits, and the same signature gets the same
\* selector.
C10_SelectorBigEndian ==
    /\ \A i \in Visited :
          locals[i].function =>
              LET b == digests[<<IF gm THEN "sm3" ELSE "keccak256",
                                 locals[i].signature>>]
              IN  /\ locals[i].method_id.hi = b[1] * 256 + b[2]
                  /\ locals[i].method_id.lo = b[3] * 256 + b[4]
                  /\ locals[i].method_id.hi \in 0..(Limb - 1)
                  /\ locals[i].method_id.lo \in 0..(Limb - 1)
    /\ \A i, j \in Visited :
          (locals[i].function /\ locals[j].function
             /\ locals[i].signature = locals[j].signature)
              => locals[i].method_id = locals[j].method_id

\* C10 witness: two entries of the same signature were given the selector
\* 0xaabbccdd under sm3
C10_Witness ==
    /\ gm
    /\ \E i, j \in Visited :
          /\ i # j
          /\ locals[i].function /\ locals[j].function
          /\ locals[i].signature = locals[j].signature
          /\ locals[i].method_id = U32(43707, 52445)
          /\ locals[j].method_id = U32(43707, 52445)
====
